---------------------------- MODULE Spec2Model ----------------------------
(***************************************************************************)
(* Model of the late-prover-bot daemon: the cycle driver                   *)
(* (DaemonService, RootsProvider, RootsProcessor, LastProcessedRoot), the  *)
(* prover's handleBlock seen as a sequence of fallible stages, and the     *)
(* transaction executor (Execution) with its gas management.               *)
(*                                                                         *)
(* The daemon is single-threaded: `pc` is the position of its one task.    *)
(* Every await that can fail is a step that either continues or throws.    *)
(***************************************************************************)
EXTENDS Integers, Sequences, FiniteSets, TLC

(***************************************************************************)
(* Bounds of the model.                                                    *)
(***************************************************************************)
MaxSlot == 2            \* finalized slots range over 1..MaxSlot
MaxRequests == 1        \* exit requests returned for one block range
MaxGroups == 2          \* deadline-slot groups of one exit request
MaxAttempts == 3        \* attempts of the execute loop within one execute call
MaxInterruptions == 2   \* cap of the high-gas interruption counter
MaxPending == 2         \* cap of the transactions left in the mempool
MaxFee == 3             \* base fees range over 1..MaxFee

\* TX_GAS_LIMIT is configuration (default 2_000_000); the model runs it small.
TX_GAS_LIMIT == 12
\* The source has BLOCKS_PER_HOUR = (60 * 60) / 12 = 300 and the library's
\* MAX_BLOCKCOUNT = 1024; the model keeps the arithmetic and scales both.
BLOCKS_PER_HOUR == 3
MAX_BLOCKCOUNT == 32

\* Beacon configuration and prover settings.  The chain has 12 s slots, 32
\* slots per epoch, SLOTS_PER_HISTORICAL_ROOT = 8192 and a shard committee
\* period of 256 epochs; the model keeps the arithmetic and runs them small.
SECONDS_PER_SLOT == 3
SLOTS_PER_EPOCH == 2
SLOTS_PER_HISTORICAL_ROOT == 3
SHARD_COMMITTEE_PERIOD_IN_SECONDS == 4
genesisTimestamp == 6
MaxFinalizedSlot == 5   \* last finalized slot of the roots provider's chain
\* START_LOOKBACK_DAYS is configuration (default 7 days); here in slots.
START_LOOKBACK_SLOTS == 4
MaxValidators == 2      \* validators of the exit request looked at in detail
\* exitEpoch of a validator that has not exited (2^64 - 1 in the source).
FAR_FUTURE_EPOCH == 99
\* VALIDATOR_BATCH_SIZE is configuration (default 50).
VALIDATOR_BATCH_SIZE == 1

HOURS_PER_DAY == 24
TX_GAS_FEE_HISTORY_DAYS == 1
TX_GAS_FEE_HISTORY_PERCENTILE == 50

None == "none"
\* An optional numeric setting that is not set (undefined in the source).
NotConfigured == -1

Min(a, b) == IF a < b THEN a ELSE b

VARIABLES
    \* configuration, fixed at construction
    DRY_RUN,                \* config.get('DRY_RUN')
    signer,                 \* Execution.signer is defined
    stakingModuleContracts, \* ids of the staking modules with a loaded contract
    START_ROOT,             \* config.get('START_ROOT'), NotConfigured if unset
    START_SLOT,             \* config.get('START_SLOT')
    START_EPOCH,            \* config.get('START_EPOCH')
    \* consensus and execution chain as observed
    finalizedSlot,          \* slot of the header returned for 'finalized'
    latestBlockNumber,      \* number of provider.getBlock('latest')
    \* daemon
    pc,                     \* position of the daemon task
    sleepReason,            \* reason of the sleep counted last, while asleep
    prev, latest,           \* the roots of the running cycle
    storageData,            \* LastProcessedRoot.storage.data.lastProcessedRoot
    storageFile,            \* content of storage/last-processed-root.json
    startData, startFile,   \* storageData / storageFile when the cycle began
    cycleResult,            \* "none" | "running" | "ok" | "failed"
    failedAt,               \* the stage whose exception failed the cycle
    \* prover
    requestsLeft,           \* exit requests of the range still to handle
    groupsLeft,             \* deadline groups of the request still to handle
    errorCount,             \* events of the range whose processing threw
    handleBlockResult,      \* "none" | "returned" | "threw"
    \* executor
    attempts,               \* iterations of the execute loop in this call
    emulated,               \* the emulate callback succeeded in this attempt
    estimated,              \* estimateGasLimit result of this attempt (0: none)
    gasLimit,               \* gasLimit of the populated tx (0: none)
    current, recommended,   \* GasFeeData of this attempt's check (0: none)
    lastError,              \* kind of the error of the last failed attempt
    execResult,             \* "none" | "running" | "ok" | "threw"
    highGasFeeInterruptionsCount,
    signedCount, sentCount, \* signTransaction / sendTransaction calls, this call
    pendingTransactions,    \* transactions of the bot sent and not yet mined
    gasFeeHistoryCache,
    lastFeeHistoryBlockNumber,
    \* prover, one exit request in detail
    validators,             \* decodeValidatorsData result with chain facts
    deliveredTimestamp,     \* getExitRequestDeliveryTimestamp result
    headSlot,               \* slot of getBeaconHeader('head')
    missedSlots,            \* slots for which the beacon node has no block
    run,                    \* which handleBlock call over the range this is
    groupQueue,             \* validatorsByDeadlineSlot entries still to handle
    deadlineSlot,           \* deadline slot of the group in hand (0: none)
    isOldSlot,              \* isSlotOld(deadlineSlot) of the group in hand
    memberQueue,            \* members of the group still to process
    validatorWitnesses,     \* witnesses collected for the group in hand
    penaltyCalls,           \* validators the registry was asked about
    proofsReturned,         \* proofs the proof helpers have returned
    submissions,            \* confirmed submissions of this handleBlock call
    firstRunSubmissions,    \* submissions of the first call over the range
    \* verifyProof(root, gI, proof, value)
    proofRoot,              \* root: the root the proof is checked against
    gindex,                 \* gI as passed in
    proof,                  \* proof: the branch, leaf side first
    value,                  \* value: the leaf
    gI,                     \* gI as shifted so far
    buf,                    \* buf: the hash recomputed so far
    consumed,               \* items of the branch forEach has visited
    verifyResult            \* running, accepted, or the message thrown

cfgVars == <<DRY_RUN, signer, stakingModuleContracts, START_ROOT, START_SLOT,
            START_EPOCH>>
verifyVars == <<proofRoot, gindex, proof, value, gI, buf, consumed, verifyResult>>
chainVars == <<finalizedSlot, latestBlockNumber>>
storeVars == <<storageData, storageFile>>
cycleVars == <<prev, latest, startData, startFile>>
outcomeVars == <<cycleResult, failedAt, handleBlockResult, execResult>>
loopVars == <<requestsLeft, groupsLeft, errorCount>>
txVars == <<emulated, estimated, gasLimit, current, recommended>>
callVars == <<attempts, lastError, signedCount, sentCount>>
gasVars == <<gasFeeHistoryCache, lastFeeHistoryBlockNumber>>
requestVars == <<validators, deliveredTimestamp, headSlot, missedSlots>>
groupVars == <<groupQueue, deadlineSlot, isOldSlot, memberQueue,
               validatorWitnesses, penaltyCalls>>
reportVars == <<run, proofsReturned, submissions, firstRunSubmissions>>
dataVars == <<requestVars, groupVars, reportVars>>
restVars == <<dataVars, sleepReason>>
mempoolVars == <<pendingTransactions>>
vars == <<sleepReason, cfgVars, verifyVars, mempoolVars, chainVars, pc, storeVars, cycleVars, outcomeVars, loopVars,
          txVars, callVars, highGasFeeInterruptionsCount, gasVars, dataVars>>

(***************************************************************************)
(* Headers and roots.  A root is an opaque value, one per slot.            *)
(***************************************************************************)
RootOf(slot) == 1000 + slot
Header(slot) == [root |-> RootOf(slot), slot |-> slot]
SlotOf(root) == root - 1000
\* No call of verifyProof is under way.
NoProof ==
    /\ proofRoot = 0 /\ gindex = 0 /\ proof = <<>> /\ value = 0
    /\ gI = 0 /\ buf = 0 /\ consumed = 0 /\ verifyResult = None

\* lastProcessedRoot: undefined; also the roots of a cycle not yet begun.
Undefined == [root |-> 0, slot |-> 0]
\* A processed root that loses the slot.
ProcessedRoot_WithoutSlot(header) == [root |-> header.root, slot |-> 0]

\* The value process() hands to handleProcessingResult.
ProcessedRoot(header) == [root |-> header.root, slot |-> header.slot]

(***************************************************************************)
(* Gas fee history.  The base fee of a block is a fixed function of its    *)
(* number, so that fee history answers are repeatable.                     *)
(***************************************************************************)
StartBlock == HOURS_PER_DAY * BLOCKS_PER_HOUR * TX_GAS_FEE_HISTORY_DAYS + MAX_BLOCKCOUNT
MaxBlock == StartBlock + BLOCKS_PER_HOUR
FeeAt(block) == 1 + ((block \div 5) % MaxFee)

calculateMaxCacheSize == TX_GAS_FEE_HISTORY_DAYS * (HOURS_PER_DAY * BLOCKS_PER_HOUR)

\* provider.getFeeHistory(count, newest, []).baseFeePerGas after the pop():
\* the base fees of blocks newest-count+1 .. newest, oldest first.
BatchFees(count, newest) == [i \in 1..count |-> FeeAt(newest - count + i)]

RECURSIVE fetchLoop(_, _, _)
fetchLoop(newGasFees, latestBlockToRequest, remainingBlocks) ==
    IF remainingBlocks <= 0 THEN newGasFees
    ELSE LET currentBatchSize == Min(remainingBlocks, MAX_BLOCKCOUNT)
         IN  fetchLoop(BatchFees(currentBatchSize, latestBlockToRequest) \o newGasFees,
                       latestBlockToRequest - (currentBatchSize - 1),
                       remainingBlocks - currentBatchSize)

fetchGasFeeHistory(latestBlock, totalBlocksToFetch) ==
    fetchLoop(<<>>, latestBlock, totalBlocksToFetch)

\* An update that keeps the whole existing cache.
updateCacheWithNewFees_KeepsWholeCache(cache, newGasFees) == cache \o newGasFees

\* updateCacheWithNewFees: the new fees replace as many of the oldest entries.
updateCacheWithNewFees(cache, newGasFees) ==
    LET existingCacheToKeep ==
            IF Len(cache) > Len(newGasFees)
            THEN SubSeq(cache, Len(newGasFees) + 1, Len(cache))
            ELSE <<>>
    IN  existingCacheToKeep \o newGasFees

\* A refresh that waits for more than BLOCKS_PER_HOUR blocks.
updateGasFeeHistoryCache_WaitsOneBlockMore(cache, lastBlock, latestBlock) ==
    LET blocksSinceLastUpdate == latestBlock - lastBlock
        blocksToFetch == Min(blocksSinceLastUpdate, calculateMaxCacheSize)
    IN  IF blocksSinceLastUpdate <= BLOCKS_PER_HOUR
        THEN <<cache, lastBlock>>
        ELSE <<updateCacheWithNewFees(cache, fetchGasFeeHistory(latestBlock, blocksToFetch)),
               latestBlock>>

\* The pair <<cache, lastFeeHistoryBlockNumber>> after updateGasFeeHistoryCache
\* has read `latestBlock` as the latest block number.
updateGasFeeHistoryCache(cache, lastBlock, latestBlock) ==
    LET blocksSinceLastUpdate == latestBlock - lastBlock
        blocksToFetch == Min(blocksSinceLastUpdate, calculateMaxCacheSize)
    IN  IF blocksSinceLastUpdate < BLOCKS_PER_HOUR
        THEN <<cache, lastBlock>>
        ELSE <<updateCacheWithNewFees(cache, fetchGasFeeHistory(latestBlock, blocksToFetch)),
               latestBlock>>

\* k-th smallest element (1-based) of a sequence of fees.
SortedAt(arr, k) ==
    CHOOSE v \in 1..MaxFee :
        /\ Cardinality({i \in 1..Len(arr) : arr[i] < v}) < k
        /\ Cardinality({i \in 1..Len(arr) : arr[i] <= v}) >= k

\* Linear interpolation between the ordered values around p/100 * (n - 1).
percentile(arr, p) ==
    IF Len(arr) = 0 THEN 0
    ELSE LET pos == p * (Len(arr) - 1)
             lower == pos \div 100
             frac == pos % 100
         IN  IF frac = 0 THEN SortedAt(arr, lower + 1)
             ELSE SortedAt(arr, lower + 1)
                  + ((SortedAt(arr, lower + 2) - SortedAt(arr, lower + 1)) * frac) \div 100

\* A gas check that accepts every fee.
isGasFeeAcceptable_Always(cur, rec) == TRUE

\* isGasFeeAcceptable: false exactly when current > recommended.
isGasFeeAcceptable(cur, rec) == ~(cur > rec)

(***************************************************************************)
(* Gas limit of a transaction.                                             *)
(***************************************************************************)
\* BigInt(Math.floor(Number(estimated) * 1.2))
estimatedWithBuffer(est) == (est * 12) \div 10

\* A cap that compares the estimate without its buffer.
exceedsHardLimit_RawEstimate(est) == est > TX_GAS_LIMIT

\* The cap of prepareTransaction: true when GasLimitExceededError is thrown.
exceedsHardLimit(est) == estimatedWithBuffer(est) > TX_GAS_LIMIT

\* What provider.estimateGas may answer; 0 stands for a failed estimation.
Estimates == {0, TX_GAS_LIMIT - 2, TX_GAS_LIMIT - 1}

\* estimateGasLimit: the estimate, or TX_GAS_LIMIT when estimation failed.
estimateGasLimit(answer) == IF answer = 0 THEN TX_GAS_LIMIT ELSE answer

(***************************************************************************)
(* Deadlines of the validators of an exit request.                         *)
(***************************************************************************)
Max(a, b) == IF a > b THEN a ELSE b

\* Consensus.slotToTimestamp, Consensus.slotToEpoch
slotToTimestamp(slot) == genesisTimestamp + slot * SECONDS_PER_SLOT
slotToEpoch(slot) == slot \div SLOTS_PER_EPOCH

\* The later of the delivery of the request and the earliest voluntary exit.
getEligibleExitRequestTimestamp(delivered, activationEpoch) ==
    LET earliestPossibleVoluntaryExitTimestamp ==
            genesisTimestamp
            + activationEpoch * SLOTS_PER_EPOCH * SECONDS_PER_SLOT
            + SHARD_COMMITTEE_PERIOD_IN_SECONDS
    IN  Max(delivered, earliestPossibleVoluntaryExitTimestamp)

getSecondsSinceExitIsEligible(eligibleExitRequestTimestamp, proofSlotTimestamp) ==
    proofSlotTimestamp - eligibleExitRequestTimestamp

\* A slot computation that rounds up.
calculateSlotFromExitDeadline_RoundsUp(exitDeadlineTimestamp) ==
    (exitDeadlineTimestamp - genesisTimestamp + SECONDS_PER_SLOT - 1)
        \div SECONDS_PER_SLOT

\* Math.floor(secondsSinceGenesis / SECONDS_PER_SLOT)
calculateSlotFromExitDeadline(exitDeadlineTimestamp) ==
    (exitDeadlineTimestamp - genesisTimestamp) \div SECONDS_PER_SLOT

\* The body of the loop of groupValidatorsByDeadlineSlot for one validator:
\* the slot at which it must have exited.
exitDeadlineSlot(validator, delivered) ==
    LET eligibleExitRequestTimestamp ==
            getEligibleExitRequestTimestamp(delivered, validator.activationEpoch)
        exitDeadline == eligibleExitRequestTimestamp + validator.exitDeadlineThreshold
    IN  calculateSlotFromExitDeadline(exitDeadline)

\* One member of a deadline group, as pushed by groupValidatorsByDeadlineSlot.
\* The staking module named by the k-th record of the request, and the
\* module ids a request can name.
ModuleIdOf(k) == k
ModuleIds == 1..(MaxValidators + 1)

\* A dispatch that finds a contract for every module id.
getContractForModule_AnyModule(moduleId) == TRUE

\* getContractForModule: TRUE when stakingRouter has a contract for the
\* module; otherwise it throws.
getContractForModule(moduleId) == moduleId \in stakingModuleContracts

Member(i, slot) == [validator |-> i, exitDeadlineEpoch |-> slotToEpoch(slot)]

\* validatorsByDeadlineSlot with the validator i added: a Map keeps its keys
\* in insertion order, here a sequence of [slot, members].
addToGroup(groups, i, slot) ==
    IF \E g \in 1..Len(groups) : groups[g].slot = slot
    THEN [g \in 1..Len(groups) |->
            IF groups[g].slot = slot
            THEN [groups[g] EXCEPT !.members = Append(@, Member(i, slot))]
            ELSE groups[g]]
    ELSE Append(groups, [slot |-> slot, members |-> <<Member(i, slot)>>])

RECURSIVE groupFrom(_, _, _, _)
groupFrom(vals, delivered, i, groups) ==
    IF i > Len(vals) THEN groups
    ELSE groupFrom(vals, delivered, i + 1,
                   addToGroup(groups, i, exitDeadlineSlot(vals[i], delivered)))

groupValidatorsByDeadlineSlot(vals, delivered) ==
    groupFrom(vals, delivered, 1, <<>>)

\* A filter without the check of the exit epoch.
processValidator_SkipsExitEpochCheck(validator, exitDeadlineEpoch, proofSlotTimestamp, delivered) ==
    LET eligibleExitRequestTimestamp ==
            getEligibleExitRequestTimestamp(delivered, validator.activationEpoch)
    IN  IF proofSlotTimestamp < eligibleExitRequestTimestamp
        THEN [witness |-> FALSE, called |-> FALSE]
        ELSE [witness |-> validator.isPenaltyApplicable, called |-> TRUE]

\* processValidator up to the proof: whether the validator yields a witness
\* and whether the contract was asked about it.
processValidator(validator, exitDeadlineEpoch, proofSlotTimestamp, delivered) ==
    LET eligibleExitRequestTimestamp ==
            getEligibleExitRequestTimestamp(delivered, validator.activationEpoch)
    IN  IF validator.exitEpoch < exitDeadlineEpoch
        THEN [witness |-> FALSE, called |-> FALSE]
        ELSE IF proofSlotTimestamp < eligibleExitRequestTimestamp
        THEN [witness |-> FALSE, called |-> FALSE]
        ELSE [witness |-> validator.isPenaltyApplicable, called |-> TRUE]

\* The historical summary that holds the block root of a slot, the slot
\* whose state has the block roots of that summary, and the place of the
\* root among them.
CAPELLA_FORK_EPOCH == 0
capellaForkSlot == CAPELLA_FORK_EPOCH * SLOTS_PER_EPOCH
calcSummaryIndex(slot) == (slot - capellaForkSlot) \div SLOTS_PER_HISTORICAL_ROOT
calcSlotOfSummary(summaryIndex) ==
    capellaForkSlot + (summaryIndex + 1) * SLOTS_PER_HISTORICAL_ROOT
calcRootIndexInSummary(slot) == slot % SLOTS_PER_HISTORICAL_ROOT

\* An age test that leaves the boundary out.
isSlotOld_Strict(slot, currentSlot) == currentSlot - slot > SLOTS_PER_HISTORICAL_ROOT

\* isSlotOld: the distance to the head slot is at least the threshold.
isSlotOld(slot, currentSlot) == currentSlot - slot >= SLOTS_PER_HISTORICAL_ROOT

(***************************************************************************)
(* Initial state: a constructed daemon, nothing persisted, empty cache.    *)
(***************************************************************************)
\* No exit request is being looked at in detail.
NoRequest ==
    /\ validators = <<>> /\ deliveredTimestamp = 0
    /\ headSlot = 0 /\ missedSlots = {}
    /\ run = 0
    /\ groupQueue = <<>> /\ deadlineSlot = 0 /\ isOldSlot = FALSE
    /\ memberQueue = <<>> /\ validatorWitnesses = <<>> /\ penaltyCalls = {}
    /\ proofsReturned = {} /\ submissions = <<>>
    /\ firstRunSubmissions = <<>>
    /\ NoProof
    /\ pendingTransactions = 0

Init ==
    /\ DRY_RUN \in BOOLEAN
    /\ signer \in BOOLEAN
    /\ stakingModuleContracts = ModuleIds
    /\ START_ROOT = NotConfigured
    /\ START_SLOT = NotConfigured /\ START_EPOCH = NotConfigured
    /\ finalizedSlot = 1
    /\ latestBlockNumber = StartBlock
    /\ pc = "run" /\ sleepReason = None
    /\ prev = Undefined /\ latest = Undefined
    /\ storageData = Undefined /\ storageFile = Undefined
    /\ startData = Undefined /\ startFile = Undefined
    /\ cycleResult = "none" /\ failedAt = None
    /\ requestsLeft = 0 /\ groupsLeft = 0 /\ handleBlockResult = "none"
    /\ errorCount = 0
    /\ attempts = 0
    /\ emulated = FALSE /\ estimated = 0 /\ gasLimit = 0
    /\ current = 0 /\ recommended = 0
    /\ lastError = None /\ execResult = "none"
    /\ highGasFeeInterruptionsCount = 0
    /\ signedCount = 0 /\ sentCount = 0
    /\ gasFeeHistoryCache = <<>>
    /\ lastFeeHistoryBlockNumber = 0
    /\ NoRequest


(***************************************************************************)
(* Cycle driver: DaemonService.run / baseRun, RootsProvider.getRoots.      *)
(***************************************************************************)
\* A prev root that prefers the configured START_SLOT to the stored root.
getPrevRoot_StartSlotFirst(finalized) ==
    IF START_SLOT # NotConfigured /\ START_SLOT \notin missedSlots
    THEN Header(START_SLOT)
    ELSE IF storageData # Undefined THEN Header(storageData.slot)
    ELSE Header(finalized.slot - 1)

\* A prev root that falls back to the finalized root itself.
getPrevRoot_FallsBackToFinalized(finalized) ==
    IF storageData # Undefined THEN Header(storageData.slot)
    ELSE IF START_ROOT # NotConfigured THEN Header(SlotOf(START_ROOT))
    ELSE IF START_SLOT # NotConfigured /\ START_SLOT \notin missedSlots
    THEN Header(START_SLOT)
    ELSE IF /\ START_EPOCH # NotConfigured
            /\ START_EPOCH * SLOTS_PER_EPOCH \notin missedSlots
    THEN Header(START_EPOCH * SLOTS_PER_EPOCH)
    ELSE finalized

\* RootsProvider.getPrevRoot: the last processed root, else START_ROOT, else
\* the header of START_SLOT, else the header of the first slot of
\* START_EPOCH (a slot without a block has no header: the failure is logged
\* and the next source is tried), else the parent of the finalized root.
getPrevRoot(finalized) ==
    IF storageData # Undefined THEN Header(storageData.slot)
    ELSE IF START_ROOT # NotConfigured THEN Header(SlotOf(START_ROOT))
    ELSE IF START_SLOT # NotConfigured /\ START_SLOT \notin missedSlots
    THEN Header(START_SLOT)
    ELSE IF /\ START_EPOCH # NotConfigured
            /\ START_EPOCH * SLOTS_PER_EPOCH \notin missedSlots
    THEN Header(START_EPOCH * SLOTS_PER_EPOCH)
    ELSE Header(finalized.slot - 1)

\* The finalized slot the beacon node reports now: it never goes back.
FinalizedNow == {f \in finalizedSlot..MaxSlot : f <= finalizedSlot + 1}

\* An exception that leaves RootsProcessor.process: every catch on the way
\* (processBlockRoot, process, baseRun) logs and rethrows, and
\* DaemonService.run catches it.
Throws(stage) ==
    /\ pc' = "error_recovery"
    /\ cycleResult' = "failed"
    /\ failedAt' = stage

\* The locals of a finished cycle are gone when the next one begins.
ForgetCycle ==
    /\ prev' = Undefined /\ latest' = Undefined
    /\ startData' = Undefined /\ startFile' = Undefined
    /\ cycleResult' = "none" /\ failedAt' = None
    /\ handleBlockResult' = "none" /\ execResult' = "none"
    /\ requestsLeft' = 0 /\ groupsLeft' = 0 /\ errorCount' = 0

\* The locals of a finished execute call are gone as well.
ForgetCall ==
    /\ attempts' = 0 /\ lastError' = None
    /\ signedCount' = 0 /\ sentCount' = 0
    /\ emulated' = FALSE /\ estimated' = 0 /\ gasLimit' = 0
    /\ current' = 0 /\ recommended' = 0

\* DaemonService.run, top of the loop: with an account configured the balance
\* of the bot is read from the execution node before the try block; a failed
\* read rejects run(), whose caller attaches no handler: the loop is over.
BalanceOf ==
    /\ pc = "run"
    /\ \/ pc' = "baseRun"
       \/ signer /\ pc' = "stopped"
    /\ UNCHANGED <<cfgVars, verifyVars, mempoolVars, chainVars, storeVars, cycleVars, outcomeVars,
                   loopVars, txVars, callVars, highGasFeeInterruptionsCount,
                   gasVars>>
    /\ UNCHANGED restVars

\* baseRun: getRoots returned undefined; sleep 'no_new_roots' and return.
BaseRunNoRoots ==
    /\ pc = "baseRun"
    /\ pc' = "sleep"
    /\ sleepReason' = "no_new_roots"
    /\ UNCHANGED <<cfgVars, verifyVars, mempoolVars, chainVars, storeVars, cycleVars, outcomeVars,
                   loopVars, txVars, callVars, highGasFeeInterruptionsCount,
                   gasVars>>
    /\ UNCHANGED dataVars

\* A driver that processes the range although both roots are the same.
BaseRunCaughtUp_Processes ==
    /\ pc = "baseRun"
    /\ \E f \in FinalizedNow :
          /\ finalizedSlot' = f
          /\ getPrevRoot(Header(f)).root = Header(f).root
          /\ prev' = getPrevRoot(Header(f))
          /\ latest' = Header(f)
    /\ pc' = "processBlockRoot"
    /\ startData' = storageData
    /\ startFile' = storageFile
    /\ cycleResult' = "running"
    /\ UNCHANGED <<cfgVars, verifyVars, mempoolVars, latestBlockNumber, storeVars, failedAt,
                   handleBlockResult, execResult, loopVars, txVars, callVars,
                   highGasFeeInterruptionsCount, gasVars>>
    /\ UNCHANGED restVars

\* baseRun: prev and latest are the same root; sleep 'caught_up' and return.
BaseRunCaughtUp ==
    /\ pc = "baseRun"
    /\ \E f \in FinalizedNow :
          /\ finalizedSlot' = f
          /\ getPrevRoot(Header(f)).root = Header(f).root
    /\ pc' = "sleep"
    /\ sleepReason' = "caught_up"
    /\ UNCHANGED <<cfgVars, verifyVars, mempoolVars, latestBlockNumber, storeVars, cycleVars,
                   outcomeVars, loopVars, txVars, callVars,
                   highGasFeeInterruptionsCount, gasVars>>
    /\ UNCHANGED dataVars

\* sleep(DAEMON_SLEEP_INTERVAL_MS) of baseRun elapses.
Sleep ==
    /\ pc = "sleep"
    /\ pc' = "run"
    /\ sleepReason' = None
    /\ UNCHANGED <<cfgVars, verifyVars, mempoolVars, chainVars, storeVars, cycleVars, outcomeVars,
                   loopVars, txVars, callVars, highGasFeeInterruptionsCount,
                   gasVars>>
    /\ UNCHANGED dataVars

\* baseRun: prev differs from latest; enter RootsProcessor.process.
BaseRunProcess ==
    /\ pc = "baseRun"
    /\ \E f \in FinalizedNow :
          /\ finalizedSlot' = f
          /\ getPrevRoot(Header(f)).root # Header(f).root
          /\ prev' = getPrevRoot(Header(f))
          /\ latest' = Header(f)
    /\ pc' = "processBlockRoot"
    /\ startData' = storageData
    /\ startFile' = storageFile
    /\ cycleResult' = "running"
    /\ UNCHANGED <<cfgVars, verifyVars, mempoolVars, latestBlockNumber, storeVars, failedAt,
                   handleBlockResult, execResult, loopVars, txVars, callVars,
                   highGasFeeInterruptionsCount, gasVars>>
    /\ UNCHANGED restVars

\* baseRun returns after a successful process(); run() loops again.
BaseRunReturns ==
    /\ pc = "cycleDone"
    /\ pc' = "run"
    /\ ForgetCycle
    /\ UNCHANGED <<cfgVars, verifyVars, mempoolVars, chainVars, storeVars, txVars, callVars,
                   highGasFeeInterruptionsCount, gasVars>>
    /\ UNCHANGED restVars

\* DaemonService.run: the catch branch counts error_recovery and sleeps.
ErrorRecovery ==
    /\ pc = "error_recovery"
    /\ pc' = "sleep"
    /\ sleepReason' = "error_recovery"
    /\ ForgetCycle
    /\ ForgetCall
    /\ UNCHANGED <<cfgVars, verifyVars, mempoolVars, chainVars, storeVars,
                   highGasFeeInterruptionsCount, gasVars>>
    /\ UNCHANGED dataVars

(***************************************************************************)
(* RootsProcessor.process / processBlockRoot / handleProcessingResult.     *)
(***************************************************************************)
\* A store whose failed write leaves an empty file behind.
LastProcessedRootSet_TruncatesOnFailure(processedRoot, written) ==
    /\ storageData' = processedRoot
    /\ storageFile' = IF written THEN processedRoot ELSE Undefined

\* LastProcessedRoot.set: assign storage.data, then write the file; the
\* write either lands whole or throws leaving the file as it was.
LastProcessedRootSet(processedRoot, written) ==
    /\ storageData' = processedRoot
    /\ storageFile' = IF written THEN processedRoot ELSE storageFile

\* A driver that stores latest before the prover has run.
ProcessBlockRoot_PersistsFirst ==
    /\ pc = "processBlockRoot"
    /\ pc' = "getExitRequestsFromBlock"
    /\ LastProcessedRootSet(ProcessedRoot(latest), TRUE)
    /\ UNCHANGED <<cfgVars, verifyVars, mempoolVars, chainVars, cycleVars, outcomeVars, loopVars, txVars,
                   callVars, highGasFeeInterruptionsCount, gasVars>>
    /\ UNCHANGED restVars

\* processBlockRoot: resolve both roots to execution block numbers.
ProcessBlockRoot ==
    /\ pc = "processBlockRoot"
    /\ \/ /\ pc' = "getExitRequestsFromBlock"
          /\ UNCHANGED <<cycleResult, failedAt>>
       \/ Throws("getBlockInfo")
    /\ UNCHANGED <<cfgVars, verifyVars, mempoolVars, chainVars, storeVars, cycleVars, handleBlockResult,
                   execResult, loopVars, txVars, callVars,
                   highGasFeeInterruptionsCount, gasVars>>
    /\ UNCHANGED restVars

\* process: after processBlockRoot returned, store latest as processed.
HandleProcessingResult ==
    /\ pc = "handleProcessingResult"
    /\ \E written \in BOOLEAN :
          /\ LastProcessedRootSet(ProcessedRoot(latest), written)
          /\ IF written
             THEN /\ pc' = "cycleDone"
                  /\ cycleResult' = "ok"
                  /\ UNCHANGED failedAt
             ELSE Throws("write")
    /\ UNCHANGED <<cfgVars, verifyVars, mempoolVars, chainVars, cycleVars, handleBlockResult,
                   execResult, loopVars, txVars, callVars,
                   highGasFeeInterruptionsCount, gasVars>>
    /\ UNCHANGED restVars

(***************************************************************************)
(* ProverService.handleBlock, stage by stage.  Every stage's exception     *)
(* reaches the catch of handleBlock, which logs and rethrows.              *)
(***************************************************************************)
ProverThrows(stage) ==
    /\ Throws(stage)
    /\ handleBlockResult' = "threw"

\* exitRequests.getExitRequestsFromBlock(fromBlock, toBlock): the requests of
\* the range (an array, possibly empty), or the event query throws.  An
\* event whose transaction or receipt cannot be fetched is caught inside the
\* loop over the events, counted in errorCount and left out of the array.
GetExitRequestsFromBlock ==
    /\ pc = "getExitRequestsFromBlock"
    /\ \/ /\ \E events \in 0..MaxRequests : \E failed \in 0..events :
               /\ requestsLeft' = events - failed
               /\ errorCount' = failed
          /\ pc' = "getState"
          /\ UNCHANGED <<cycleResult, failedAt, handleBlockResult>>
       \/ /\ ProverThrows("getExitRequestsFromBlock")
          /\ UNCHANGED <<requestsLeft, errorCount>>
    /\ UNCHANGED <<cfgVars, verifyVars, mempoolVars, chainVars, storeVars, cycleVars, execResult,
                   groupsLeft, txVars, callVars, highGasFeeInterruptionsCount,
                   gasVars>>
    /\ UNCHANGED restVars

\* consensus.getState('finalized'), getBeaconHeader('finalized'), then
\* deserializeToView of the finalized state: nothing catches its exception
\* before the catch of handleBlock.
GetState ==
    /\ pc = "getState"
    /\ \/ /\ pc' = "exitRequestLoop"
          /\ UNCHANGED <<cycleResult, failedAt, handleBlockResult>>
       \/ ProverThrows("getState")
       \/ ProverThrows("deserializeToView")
    /\ UNCHANGED <<cfgVars, verifyVars, mempoolVars, chainVars, storeVars, cycleVars, execResult,
                   loopVars, txVars, callVars, highGasFeeInterruptionsCount,
                   gasVars>>
    /\ UNCHANGED restVars

\* for (const exitRequest of exitRequestsResult): decode, delivery timestamp,
\* grouping by deadline slot; when no request is left handleBlock returns.
ExitRequestLoop ==
    /\ pc = "exitRequestLoop"
    /\ IF requestsLeft = 0
       THEN /\ handleBlockResult' = "returned"
            /\ pc' = "handleProcessingResult"
            /\ UNCHANGED <<cycleResult, failedAt, loopVars>>
       ELSE \/ /\ requestsLeft' = requestsLeft - 1
               /\ \E g \in 0..MaxGroups : groupsLeft' = g
               /\ UNCHANGED errorCount
               /\ pc' = "deadlineGroupLoop"
               /\ UNCHANGED <<cycleResult, failedAt, handleBlockResult>>
            \/ /\ ProverThrows("groupValidatorsByDeadlineSlot")
               /\ UNCHANGED loopVars
    /\ UNCHANGED <<cfgVars, verifyVars, mempoolVars, chainVars, storeVars, cycleVars, execResult,
                   txVars, callVars, highGasFeeInterruptionsCount, gasVars>>
    /\ UNCHANGED restVars

\* for (const [deadlineSlot, validatorGroup] of validatorsByDeadlineSlot):
\* header and state of the deadline slot, witnesses with their proofs; a
\* group with no witnesses is skipped, one with witnesses is submitted.
DeadlineGroupLoop ==
    /\ pc = "deadlineGroupLoop"
    /\ IF groupsLeft = 0
       THEN /\ pc' = "exitRequestLoop"
            /\ UNCHANGED <<cycleResult, failedAt, handleBlockResult, groupsLeft>>
       ELSE \/ /\ groupsLeft' = groupsLeft - 1     \* no witnesses: continue
               /\ UNCHANGED <<pc, cycleResult, failedAt, handleBlockResult>>
            \/ /\ groupsLeft' = groupsLeft - 1     \* witnesses: verify them
               /\ pc' = "verify"
               /\ UNCHANGED <<cycleResult, failedAt, handleBlockResult>>
            \/ /\ ProverThrows("processValidatorGroup")
               /\ UNCHANGED groupsLeft
    /\ UNCHANGED <<cfgVars, verifyVars, mempoolVars, chainVars, storeVars, cycleVars, execResult,
                   requestsLeft, errorCount, txVars, callVars,
                   highGasFeeInterruptionsCount, gasVars>>
    /\ UNCHANGED restVars

\* The verifier hands its emulate and populate callbacks with the payload
\* to Execution.execute, which runs executeDaemon.
Execute ==
    /\ pc = "verify"
    /\ pc' = "executeDaemon"
    /\ execResult' = "running"
    /\ UNCHANGED <<cfgVars, verifyVars, mempoolVars, chainVars, storeVars, cycleVars, cycleResult,
                   failedAt, handleBlockResult, loopVars, txVars, callVars,
                   highGasFeeInterruptionsCount, gasVars>>
    /\ UNCHANGED restVars

\* execute returned: handleBlock logs the verification and takes the next
\* group of the request.
VerificationCompleted ==
    /\ pc = "executeReturned"
    /\ pc' = "deadlineGroupLoop"
    /\ execResult' = "none"
    /\ ForgetCall
    /\ UNCHANGED <<cfgVars, verifyVars, mempoolVars, chainVars, storeVars, cycleVars, cycleResult,
                   failedAt, handleBlockResult, loopVars,
                   highGasFeeInterruptionsCount, gasVars>>
    /\ UNCHANGED restVars

(***************************************************************************)
(* Execution.executeDaemon: while (true) { try { executeTransaction }      *)
(* catch (error) { await handleExecutionError(error) } }.                  *)
(***************************************************************************)
\* A handler that rethrows HighGasFeeError like any other error.
handleExecutionError_HighGasThrows(kind) ==
    IF kind = "NoSignerError"
    THEN [outcome |-> "returned", interruptions |-> 0, slept |-> FALSE]
    ELSE [outcome |-> "threw", interruptions |-> 0, slept |-> FALSE]

\* A handler that lets the loop retry after every error.
handleExecutionError_RetriesAll(kind) ==
    IF kind = "HighGasFeeError"
    THEN [outcome |-> "returned", interruptions |-> 1, slept |-> TRUE]
    ELSE [outcome |-> "returned", interruptions |-> 0, slept |-> FALSE]

\* handleExecutionError: whether the handler returns or throws, whether it
\* counts a high-gas interruption and whether it sleeps RETRY_DELAY_MS.
handleExecutionError(kind) ==
    IF kind = "NoSignerError"
    THEN [outcome |-> "returned", interruptions |-> 0, slept |-> FALSE]
    ELSE IF kind = "HighGasFeeError"
    THEN [outcome |-> "returned", interruptions |-> 1, slept |-> TRUE]
    ELSE [outcome |-> "threw", interruptions |-> 0, slept |-> FALSE]

\* The catch block of executeDaemon for an attempt that failed with `kind`:
\* a handler that returns lets the while (true) loop go round again; a
\* handler that throws ends execute, and the exception fails the cycle.
AttemptFails(kind) ==
    LET h == handleExecutionError(kind) IN
    /\ lastError' = kind
    /\ highGasFeeInterruptionsCount + h.interruptions <= MaxInterruptions
    /\ highGasFeeInterruptionsCount' = highGasFeeInterruptionsCount + h.interruptions
    /\ IF h.outcome = "returned"
       THEN /\ pc' = IF h.slept THEN "retryDelay" ELSE "executeDaemon"
            /\ UNCHANGED outcomeVars
       ELSE /\ execResult' = "threw"
            /\ ProverThrows("execute")

\* The attempt goes on to its next step.
Continue(next) ==
    /\ pc' = next
    /\ UNCHANGED <<lastError, highGasFeeInterruptionsCount, outcomeVars>>

\* executeTransaction returned: executeDaemon returns to the caller.
ExecuteReturns ==
    /\ pc' = "executeReturned"
    /\ execResult' = "ok"
    /\ UNCHANGED <<lastError, highGasFeeInterruptionsCount, cycleResult,
                   failedAt, handleBlockResult>>

\* Top of the loop and step 1 of executeTransaction: populateTxCallback.
ExecuteAttempt ==
    /\ pc = "executeDaemon"
    /\ attempts < MaxAttempts
    /\ attempts' = attempts + 1
    /\ emulated' = FALSE /\ estimated' = 0 /\ gasLimit' = 0
    /\ current' = 0 /\ recommended' = 0
    /\ \/ Continue("emulateTransaction")
       \/ AttemptFails("ProviderError")
    /\ UNCHANGED <<cfgVars, verifyVars, mempoolVars, chainVars, storeVars, cycleVars, loopVars,
                   signedCount, sentCount, gasVars>>
    /\ UNCHANGED restVars

\* A retry delay after which executeDaemon returns with nothing sent.
RetryDelay_ReturnsUnsent ==
    /\ pc = "retryDelay"
    /\ pc' = "executeReturned"
    /\ execResult' = "ok"
    /\ UNCHANGED <<cycleResult, failedAt, handleBlockResult>>
    /\ UNCHANGED <<cfgVars, verifyVars, mempoolVars, chainVars, storeVars, cycleVars,
                   loopVars, txVars, callVars, highGasFeeInterruptionsCount,
                   gasVars>>
    /\ UNCHANGED restVars

\* handleExecutionError's setTimeout(RETRY_DELAY_MS) elapses.
RetryDelay ==
    /\ pc = "retryDelay"
    /\ pc' = "executeDaemon"
    /\ UNCHANGED <<cfgVars, verifyVars, mempoolVars, chainVars, storeVars, cycleVars, outcomeVars,
                   loopVars, txVars, callVars, highGasFeeInterruptionsCount,
                   gasVars>>
    /\ UNCHANGED restVars

\* An executeTransaction that goes on whatever the emulation said.
EmulateTransaction_IgnoresFailure ==
    /\ pc = "emulateTransaction"
    /\ \E ok \in BOOLEAN : emulated' = ok
    /\ Continue("validateSigner")
    /\ UNCHANGED <<cfgVars, verifyVars, mempoolVars, chainVars, storeVars, cycleVars, loopVars,
                   attempts, estimated, gasLimit, current, recommended,
                   signedCount, sentCount, gasVars>>
    /\ UNCHANGED restVars

\* Step 2: emulateTransaction.
EmulateTransaction ==
    /\ pc = "emulateTransaction"
    /\ \/ /\ emulated' = TRUE
          /\ Continue("validateSigner")
       \/ /\ UNCHANGED emulated
          /\ AttemptFails("EmulatedCallError")
    /\ UNCHANGED <<cfgVars, verifyVars, mempoolVars, chainVars, storeVars, cycleVars, loopVars,
                   attempts, estimated, gasLimit, current, recommended,
                   signedCount, sentCount, gasVars>>
    /\ UNCHANGED restVars

\* validateSigner: NoSignerError when this.signer is undefined.
validateSigner == IF signer THEN None ELSE "NoSignerError"

\* Step 3: validateSigner, only when not in dry run.
ValidateSigner ==
    /\ pc = "validateSigner"
    /\ IF ~DRY_RUN /\ validateSigner # None
       THEN AttemptFails(validateSigner)
       ELSE Continue("prepareTransaction")
    /\ UNCHANGED <<cfgVars, verifyVars, mempoolVars, chainVars, storeVars, cycleVars, loopVars,
                   attempts, txVars, signedCount, sentCount, gasVars>>
    /\ UNCHANGED restVars

\* Step 4: prepareTransaction: gas parameters, estimate, hard cap, and
\* this.signer!.populateTransaction, a TypeError when there is no signer.
PrepareTransaction ==
    /\ pc = "prepareTransaction"
    /\ \/ /\ AttemptFails("ProviderError")      \* calculateGasParameters
          /\ UNCHANGED <<estimated, gasLimit>>
       \/ \E answer \in Estimates :
            /\ estimated' = estimateGasLimit(answer)
            /\ IF exceedsHardLimit(estimated')
               THEN /\ AttemptFails("GasLimitExceededError")
                    /\ UNCHANGED gasLimit
               ELSE IF ~signer
               THEN /\ AttemptFails("TypeError")
                    /\ UNCHANGED gasLimit
               ELSE /\ gasLimit' = estimatedWithBuffer(estimated')
                    /\ Continue("validateTransactionConditions")
    /\ UNCHANGED <<cfgVars, verifyVars, mempoolVars, chainVars, storeVars, cycleVars, loopVars,
                   attempts, emulated, current, recommended, signedCount,
                   sentCount, gasVars>>
    /\ UNCHANGED restVars

\* The latest block number the provider reports now.
LatestNow ==
    {b \in {latestBlockNumber, latestBlockNumber + 1,
            latestBlockNumber + BLOCKS_PER_HOUR} : b <= MaxBlock}

\* calculateGasFeeData: the recommended fee over the refreshed cache.
calculateGasFeeData(cache) == percentile(cache, TX_GAS_FEE_HISTORY_PERCENTILE)

\* Step 5: validateTransactionConditions: the dry-run return, else the gas
\* fee check of isGasFeeAcceptable over calculateGasFeeData.
ValidateTransactionConditions ==
    /\ pc = "validateTransactionConditions"
    /\ IF DRY_RUN
       THEN /\ ExecuteReturns
            /\ UNCHANGED <<latestBlockNumber, current, recommended, gasVars>>
       ELSE \E currentFee \in 1..MaxFee, latestBlock \in LatestNow :
            LET updated == updateGasFeeHistoryCache(gasFeeHistoryCache,
                               lastFeeHistoryBlockNumber, latestBlock)
            IN  /\ latestBlockNumber' = latestBlock
                /\ gasFeeHistoryCache' = updated[1]
                /\ lastFeeHistoryBlockNumber' = updated[2]
                /\ current' = currentFee
                /\ recommended' = calculateGasFeeData(updated[1])
                /\ IF isGasFeeAcceptable(current', recommended')
                   THEN Continue("sendAndConfirmTransaction")
                   ELSE AttemptFails("HighGasFeeError")
    /\ UNCHANGED <<cfgVars, verifyVars, mempoolVars, finalizedSlot, storeVars, cycleVars, loopVars,
                   attempts, emulated, estimated, gasLimit, signedCount,
                   sentCount>>
    /\ UNCHANGED restVars

\* Step 6: sendAndConfirmTransaction: sign, then send.
SendAndConfirmTransaction ==
    /\ pc = "sendAndConfirmTransaction"
    /\ signedCount' = signedCount + 1
    /\ \/ /\ pendingTransactions < MaxPending
          /\ sentCount' = sentCount + 1
          /\ pendingTransactions' = pendingTransactions + 1
          /\ Continue("waitForConfirmation")
       \/ /\ UNCHANGED <<sentCount, pendingTransactions>>
          /\ AttemptFails("SendTransactionError")
    /\ UNCHANGED <<cfgVars, verifyVars, chainVars, storeVars, cycleVars, loopVars,
                   attempts, txVars, gasVars>>
    /\ UNCHANGED restVars

\* waitForConfirmation: the transaction is mined and has TX_CONFIRMATIONS
\* confirmations, or TX_MINING_WAITING_TIMEOUT_MS pass first (or the
\* provider fails) and the transaction stays where it is.
WaitForConfirmation ==
    /\ pc = "waitForConfirmation"
    /\ \/ /\ pendingTransactions' = pendingTransactions - 1
          /\ ExecuteReturns
       \/ /\ UNCHANGED pendingTransactions
          /\ AttemptFails("SendTransactionError")
    /\ UNCHANGED <<cfgVars, verifyVars, chainVars, storeVars, cycleVars, loopVars,
                   attempts, txVars, signedCount, sentCount, gasVars>>
    /\ UNCHANGED restVars

(***************************************************************************)
(* ProverService.handleBlock in detail, for one exit request: grouping by  *)
(* deadline slot, and for each group the age of the slot, the header and   *)
(* state of the slot, the filter of its validators, the proofs and the     *)
(* call of the verifier.  The same range is then handled a second time.    *)
(***************************************************************************)
\* What the detailed walk leaves alone.
daemonVars == <<cfgVars, verifyVars, mempoolVars, chainVars, storeVars, cycleVars, cycleResult, failedAt,
                execResult, loopVars, txVars, callVars,
                highGasFeeInterruptionsCount, gasVars, sleepReason>>

\* The catch of handleBlock: log, count, rethrow.
HandleBlockThrows ==
    /\ pc' = "handleBlockDone"
    /\ handleBlockResult' = "threw"

\* groupValidatorsByDeadlineSlot(validators, deliveredTimestamp, state);
\* getContractForModule throws for a validator whose module has no contract,
\* and the exitDeadlineThreshold call of a validator's module may fail.
GroupValidatorsByDeadlineSlot ==
    /\ pc = "groupValidatorsByDeadlineSlot"
    /\ \/ /\ \A i \in DOMAIN validators : getContractForModule(ModuleIdOf(i))
          /\ groupQueue' = groupValidatorsByDeadlineSlot(validators, deliveredTimestamp)
          /\ pc' = "deadlineGroup"
          /\ UNCHANGED handleBlockResult
       \/ /\ HandleBlockThrows
          /\ UNCHANGED groupQueue
    /\ UNCHANGED <<daemonVars, requestVars, reportVars, deadlineSlot, isOldSlot,
                   memberQueue, validatorWitnesses, penaltyCalls>>

\* The head of the group loop: the next [deadlineSlot, validatorGroup] of
\* the map, and isSlotOld(deadlineSlot) decided for it; with no group left
\* handleBlock returns.
IsSlotOld ==
    /\ pc = "deadlineGroup"
    /\ IF groupQueue = <<>>
       THEN /\ pc' = "handleBlockDone"
            /\ handleBlockResult' = "returned"
            /\ UNCHANGED <<groupQueue, deadlineSlot, isOldSlot, memberQueue>>
       ELSE \/ /\ deadlineSlot' = Head(groupQueue).slot
               /\ memberQueue' = Head(groupQueue).members
               /\ groupQueue' = Tail(groupQueue)
               /\ isOldSlot' = isSlotOld(Head(groupQueue).slot, headSlot)
               /\ pc' = "getBeaconHeader"
               /\ UNCHANGED handleBlockResult
            \/ /\ HandleBlockThrows     \* the head header could not be read
               /\ UNCHANGED <<groupQueue, deadlineSlot, isOldSlot, memberQueue>>
    /\ validatorWitnesses' = <<>>
    /\ UNCHANGED <<daemonVars, requestVars, reportVars, penaltyCalls>>

\* consensus.getBeaconHeader(deadlineSlot.toString()): the header of the
\* deadline slot itself; a slot without a block has no header and the
\* request fails.
GetBeaconHeader ==
    /\ pc = "getBeaconHeader"
    /\ IF deadlineSlot \in missedSlots
       THEN HandleBlockThrows
       ELSE /\ pc' = "processValidatorGroup"
            /\ UNCHANGED handleBlockResult
    /\ UNCHANGED <<daemonVars, dataVars>>

\* processValidatorGroup: the state of the deadline slot, once for the
\* group; without a state view the whole group is skipped.
ProcessValidatorGroup ==
    /\ pc = "processValidatorGroup"
    /\ \/ /\ pc' = "processValidator"
          /\ UNCHANGED <<handleBlockResult, memberQueue>>
       \/ /\ pc' = "processValidator"
          /\ memberQueue' = <<>>
          /\ UNCHANGED handleBlockResult
       \/ /\ HandleBlockThrows
          /\ UNCHANGED memberQueue
    /\ UNCHANGED <<daemonVars, requestVars, reportVars, groupQueue,
                   deadlineSlot, isOldSlot, validatorWitnesses, penaltyCalls>>

\* The loop of processValidatorGroup, one validator of the group per step:
\* processValidator, with generateValidatorProof for a validator that passed
\* (the proof comes back from createProof as it is); after the last one the
\* group is skipped when it has no witness.
ProcessValidator ==
    /\ pc = "processValidator"
    /\ IF memberQueue = <<>>
       THEN /\ pc' = IF validatorWitnesses = <<>> THEN "deadlineGroup"
                     ELSE IF isOldSlot THEN "generateHistoricalStateProof"
                     ELSE "verifyValidatorGroup"
            /\ UNCHANGED <<handleBlockResult, memberQueue, validatorWitnesses,
                           penaltyCalls, proofsReturned>>
       ELSE LET member == Head(memberQueue)
                result == processValidator(validators[member.validator],
                                           member.exitDeadlineEpoch,
                                           slotToTimestamp(deadlineSlot),
                                           deliveredTimestamp)
            IN  \/ /\ memberQueue' = Tail(memberQueue)
                   /\ penaltyCalls' =
                          IF result.called THEN penaltyCalls \cup {member.validator}
                          ELSE penaltyCalls
                   /\ validatorWitnesses' =
                          IF result.witness
                          THEN Append(validatorWitnesses, member.validator)
                          ELSE validatorWitnesses
                   /\ proofsReturned' =
                          IF result.witness
                          THEN proofsReturned \cup
                               {[proof |-> "validator", verified |-> FALSE]}
                          ELSE proofsReturned
                   /\ UNCHANGED <<pc, handleBlockResult>>
                \/ /\ result.called          \* the contract call failed
                   /\ HandleBlockThrows
                   /\ penaltyCalls' = penaltyCalls \cup {member.validator}
                   /\ UNCHANGED <<memberQueue, validatorWitnesses, proofsReturned>>
    /\ UNCHANGED <<daemonVars, requestVars, groupQueue, deadlineSlot, isOldSlot,
                   run, submissions, firstRunSubmissions>>

\* generateHistoricalStateProof: createProof over the patched tree, then
\* verifyProof against the root of the patched tree; a proof that does not
\* verify is thrown away with an exception.
GenerateHistoricalStateProof ==
    /\ pc = "generateHistoricalStateProof"
    /\ \E valid \in BOOLEAN :
          IF valid
          THEN /\ proofsReturned' = proofsReturned \cup
                      {[proof |-> "historical", verified |-> TRUE]}
               /\ pc' = "verifyValidatorGroup"
               /\ UNCHANGED handleBlockResult
          ELSE /\ HandleBlockThrows
               /\ UNCHANGED proofsReturned
    /\ UNCHANGED <<daemonVars, requestVars, groupVars, run, submissions,
                   firstRunSubmissions>>

\* verifier.verifyHistoricalValidatorExitDelay for an old slot, else
\* verifyValidatorGroup -> verifier.verifyValidatorExitDelay: one call with
\* all the witnesses of the group; it returns or throws.
VerifyValidatorGroup ==
    /\ pc = "verifyValidatorGroup"
    /\ \E returns \in BOOLEAN :
          /\ submissions' = Append(submissions,
                [entry |-> IF isOldSlot THEN "verifyHistoricalValidatorExitDelay"
                           ELSE "verifyValidatorExitDelay",
                 deadlineSlot |-> deadlineSlot,
                 proofSlot |-> deadlineSlot,
                 headSlot |-> headSlot,
                 witnesses |-> validatorWitnesses,
                 confirmed |-> returns])
          /\ IF returns
             THEN pc' = "deadlineGroup" /\ UNCHANGED handleBlockResult
             ELSE HandleBlockThrows
    /\ UNCHANGED <<daemonVars, requestVars, groupVars, run, proofsReturned,
                   firstRunSubmissions>>

\* The next cycle handles the same range with the same request once more:
\* handleBlock keeps nothing from one call to the next.
HandleBlockAgain ==
    /\ pc = "handleBlockDone"
    /\ run = 1
    /\ run' = 2
    /\ pc' = "groupValidatorsByDeadlineSlot"
    /\ handleBlockResult' = "none"
    /\ firstRunSubmissions' = submissions
    /\ submissions' = <<>>
    /\ groupQueue' = <<>> /\ deadlineSlot' = 0 /\ isOldSlot' = FALSE
    /\ memberQueue' = <<>> /\ validatorWitnesses' = <<>> /\ penaltyCalls' = {}
    /\ proofsReturned' = {}
    /\ UNCHANGED <<daemonVars, requestVars>>

\* The exit requests, chains and heads the detailed walk is run on.
ActivationEpochs == {0, 1}
ExitDeadlineThresholds == {1, 5}
ExitEpochs == {1, FAR_FUTURE_EPOCH}
ValidatorData ==
    [activationEpoch : ActivationEpochs,
     exitDeadlineThreshold : ExitDeadlineThresholds,
     exitEpoch : ExitEpochs,
     isPenaltyApplicable : BOOLEAN]
DeliveredTimestamps == {12}
HeadSlots == {5, 7}
MissedSlots == {{}, {3}}

\* handleBlock has the decoded validators of one exit request in hand.
ProverInit ==
    /\ DRY_RUN = FALSE /\ signer = TRUE
    /\ stakingModuleContracts \in {ModuleIds, {ModuleIdOf(1)}}
    /\ START_ROOT = NotConfigured
    /\ START_SLOT = NotConfigured /\ START_EPOCH = NotConfigured
    /\ finalizedSlot = 1
    /\ latestBlockNumber = StartBlock
    /\ sleepReason = None
    /\ prev = Undefined /\ latest = Undefined
    /\ storageData = Undefined /\ storageFile = Undefined
    /\ startData = Undefined /\ startFile = Undefined
    /\ cycleResult = "none" /\ failedAt = None
    /\ requestsLeft = 0 /\ groupsLeft = 0 /\ handleBlockResult = "none"
    /\ errorCount = 0
    /\ attempts = 0
    /\ emulated = FALSE /\ estimated = 0 /\ gasLimit = 0
    /\ current = 0 /\ recommended = 0
    /\ lastError = None /\ execResult = "none"
    /\ highGasFeeInterruptionsCount = 0
    /\ signedCount = 0 /\ sentCount = 0
    /\ gasFeeHistoryCache = <<>>
    /\ lastFeeHistoryBlockNumber = 0
    /\ pc = "groupValidatorsByDeadlineSlot"
    /\ \E n \in 1..MaxValidators : validators \in [1..n -> ValidatorData]
    /\ deliveredTimestamp \in DeliveredTimestamps
    /\ headSlot \in HeadSlots
    /\ missedSlots \in MissedSlots
    /\ run = 1
    /\ groupQueue = <<>> /\ deadlineSlot = 0 /\ isOldSlot = FALSE
    /\ memberQueue = <<>> /\ validatorWitnesses = <<>> /\ penaltyCalls = {}
    /\ proofsReturned = {} /\ submissions = <<>>
    /\ firstRunSubmissions = <<>>
    /\ NoProof
    /\ pendingTransactions = 0

ProverNext ==
    \/ GroupValidatorsByDeadlineSlot
    \/ IsSlotOld
    \/ GetBeaconHeader
    \/ ProcessValidatorGroup
    \/ ProcessValidator
    \/ GenerateHistoricalStateProof
    \/ VerifyValidatorGroup
    \/ HandleBlockAgain

ProverSpec == ProverInit /\ [][ProverNext]_vars

(***************************************************************************)
(* RootsProvider.getRoots in detail: the sources of prev under every       *)
(* combination of START_ROOT, START_SLOT and START_EPOCH, with a stored    *)
(* root or without, across restarts of the process.                        *)
(***************************************************************************)
\* What the roots provider and the store leave alone.
providerRest == <<cfgVars, verifyVars, mempoolVars, latestBlockNumber, outcomeVars, loopVars, txVars,
                  callVars, highGasFeeInterruptionsCount, gasVars, restVars>>

\* getRoots: the finalized header, then getPrevRoot.
GetRoots ==
    /\ pc = "getRoots"
    /\ \E f \in {finalizedSlot, Min(finalizedSlot + 1, MaxFinalizedSlot)} :
          /\ finalizedSlot' = f
          /\ prev' = getPrevRoot(Header(f))
          /\ latest' = Header(f)
    /\ startData' = storageData
    /\ startFile' = storageFile
    /\ pc' = "process"
    /\ UNCHANGED <<storeVars, providerRest>>

\* The rest of the cycle: nothing to do for equal roots; else process either
\* fails or stores latest.
ProcessRoots ==
    /\ pc = "process"
    /\ pc' = "getRoots"
    /\ IF prev.root = latest.root
       THEN UNCHANGED storeVars
       ELSE \/ UNCHANGED storeVars
            \/ \E written \in BOOLEAN :
                  LastProcessedRootSet(ProcessedRoot(latest), written)
    /\ UNCHANGED <<finalizedSlot, cycleVars, providerRest>>

\* The process is started again: LastProcessedRoot.initStorage reads the
\* file; nothing else survives.
Restart ==
    /\ pc \in {"getRoots", "process"}
    /\ pc' = "getRoots"
    /\ storageData' = storageFile
    /\ UNCHANGED storageFile
    /\ prev' = Undefined /\ latest' = Undefined
    /\ startData' = Undefined /\ startFile' = Undefined
    /\ UNCHANGED <<finalizedSlot, providerRest>>

\* A start of the process, with or without a root stored by an earlier one.
ProviderInit ==
    /\ DRY_RUN = FALSE /\ signer = TRUE
    /\ stakingModuleContracts = ModuleIds
    /\ START_ROOT \in {NotConfigured, RootOf(0)}
    /\ START_SLOT \in {NotConfigured, 1}
    /\ START_EPOCH \in {NotConfigured, 1}
    /\ finalizedSlot = MaxFinalizedSlot - 1
    /\ latestBlockNumber = StartBlock
    /\ sleepReason = None
    /\ prev = Undefined /\ latest = Undefined
    /\ storageFile \in {Undefined, ProcessedRoot(Header(MaxFinalizedSlot - 2))}
    /\ storageData = storageFile
    /\ startData = Undefined /\ startFile = Undefined
    /\ cycleResult = "none" /\ failedAt = None
    /\ requestsLeft = 0 /\ groupsLeft = 0 /\ handleBlockResult = "none"
    /\ errorCount = 0
    /\ attempts = 0
    /\ emulated = FALSE /\ estimated = 0 /\ gasLimit = 0
    /\ current = 0 /\ recommended = 0
    /\ lastError = None /\ execResult = "none"
    /\ highGasFeeInterruptionsCount = 0
    /\ signedCount = 0 /\ sentCount = 0
    /\ gasFeeHistoryCache = <<>>
    /\ lastFeeHistoryBlockNumber = 0
    /\ pc = "getRoots"
    /\ validators = <<>> /\ deliveredTimestamp = 0
    /\ headSlot = MaxFinalizedSlot + 1
    /\ missedSlots \in {{}, {1}}
    /\ run = 0
    /\ groupQueue = <<>> /\ deadlineSlot = 0 /\ isOldSlot = FALSE
    /\ memberQueue = <<>> /\ validatorWitnesses = <<>> /\ penaltyCalls = {}
    /\ proofsReturned = {} /\ submissions = <<>>
    /\ firstRunSubmissions = <<>>
    /\ NoProof
    /\ pendingTransactions = 0

ProviderNext ==
    \/ GetRoots
    \/ ProcessRoots
    \/ Restart

ProviderSpec == ProviderInit /\ [][ProviderNext]_vars

Next ==
    \/ BalanceOf
    \/ BaseRunNoRoots
    \/ BaseRunCaughtUp
    \/ Sleep
    \/ BaseRunProcess
    \/ BaseRunReturns
    \/ ErrorRecovery
    \/ ProcessBlockRoot
    \/ HandleProcessingResult
    \/ GetExitRequestsFromBlock
    \/ GetState
    \/ ExitRequestLoop
    \/ DeadlineGroupLoop
    \/ Execute
    \/ VerificationCompleted
    \/ ExecuteAttempt
    \/ RetryDelay
    \/ EmulateTransaction
    \/ ValidateSigner
    \/ PrepareTransaction
    \/ ValidateTransactionConditions
    \/ SendAndConfirmTransaction
    \/ WaitForConfirmation

Spec == Init /\ [][Next]_vars

(***************************************************************************)
(* Properties of the cycle driver.                                         *)
(***************************************************************************)
\* C1: when a step of a cycle has thrown, the persisted lastProcessedRoot
\* (the storage file) is what it was when the cycle began; unless the throw
\* came from the write itself, the in-memory copy is unchanged as well.
C1_FailedCycleKeepsLastProcessedRoot ==
    cycleResult = "failed" =>
        /\ storageFile = startFile
        /\ failedAt # "write" => storageData = startData

\* A cycle that follows a persisted one fails in the submission, after the
\* transaction was sent.
C1_Witness ==
    /\ cycleResult = "failed" /\ failedAt = "execute"
    /\ startFile # Undefined
    /\ sentCount = 1

C8_DryRunDoesNotPersist ==
    (DRY_RUN /\ cycleResult = "ok") => storageFile = startFile

(***************************************************************************)
(* Properties of the execute loop.                                         *)
(***************************************************************************)
\* C3: once an attempt has failed with NoSignerError, the execute loop
\* makes no further attempt.
C3_NoSignerEndsLoop ==
    [][lastError = "NoSignerError" => attempts' <= attempts]_vars

\* The gas check of this step fails: not dry run, fee above the percentile.
HighGasFeeStep ==
    /\ pc = "validateTransactionConditions"
    /\ ~DRY_RUN
    /\ current' > recommended'

\* C4: an attempt that fails with HighGasFeeError counts one interruption
\* and goes to the retry delay with execute still running; the delay leads
\* to the top of the loop, where the next attempt starts at the populate
\* step; execute never throws a HighGasFeeError.
C4_HighGasFeeRetries ==
    [][ /\ HighGasFeeStep =>
              /\ highGasFeeInterruptionsCount' = highGasFeeInterruptionsCount + 1
              /\ pc' = "retryDelay"
              /\ execResult' = "running"
              /\ lastError' = "HighGasFeeError"
        /\ pc = "retryDelay" =>
              /\ pc' = "executeDaemon"
              /\ highGasFeeInterruptionsCount' = highGasFeeInterruptionsCount
              /\ attempts' = attempts
        /\ (pc = "executeDaemon" /\ lastError = "HighGasFeeError") =>
              /\ attempts' = attempts + 1
              /\ pc' \in {"emulateTransaction", "error_recovery"}
        /\ execResult' = "threw" => lastError' # "HighGasFeeError"
      ]_vars

\* The attempt after one high-gas interruption is past its populate step.
C4_Witness ==
    /\ lastError = "HighGasFeeError"
    /\ highGasFeeInterruptionsCount = 1
    /\ attempts = 2
    /\ pc = "emulateTransaction"

\* The errors handleExecutionError has no branch for.
OtherErrors ==
    {"ProviderError", "EmulatedCallError", "GasLimitExceededError",
     "TypeError", "SendTransactionError"}

\* C5: an attempt that fails with any error other than NoSignerError and
\* HighGasFeeError ends execute with a throw at once: the exception is on
\* its way to the daemon's catch and no further step of the call runs.
C5_OtherErrorsThrow ==
    lastError \in OtherErrors =>
        /\ execResult = "threw"
        /\ pc = "error_recovery"
        /\ failedAt = "execute"

\* A confirmation failure of the second attempt, after a high-gas retry.
C5_Witness ==
    /\ lastError = "SendTransactionError"
    /\ sentCount = 1
    /\ attempts = 2
    /\ execResult = "threw"

\* C6: a transaction is signed only in an attempt whose emulation has
\* succeeded; after an emulation failure nothing is signed or sent and
\* execute has thrown.
C6_SignedOnlyAfterEmulation ==
    /\ signedCount > 0 => emulated
    /\ sentCount <= signedCount
    /\ pc \in {"sendAndConfirmTransaction", "waitForConfirmation"} => emulated
    /\ lastError = "EmulatedCallError" =>
          /\ signedCount = 0 /\ sentCount = 0
          /\ execResult = "threw"

\* A transaction is in flight, its attempt emulated.
C6_Witness ==
    /\ pc = "waitForConfirmation"
    /\ emulated
    /\ signedCount = 1 /\ sentCount = 1

\* C7: with DRY_RUN set execute signs and sends nothing, and once the
\* emulation has succeeded it does not throw, a failing provider call and
\* the gas cap apart.
C7_DryRunReturnsAfterEmulation ==
    DRY_RUN =>
        /\ signedCount = 0 /\ sentCount = 0
        /\ (emulated /\ execResult = "threw") =>
              lastError \in {"ProviderError", "GasLimitExceededError"}

C10_SentOnlyAtAcceptableFee ==
    ~DRY_RUN =>
        /\ (signedCount > 0 \/ pc = "sendAndConfirmTransaction") =>
              /\ current > 0
              /\ current <= recommended
              /\ recommended = percentile(gasFeeHistoryCache,
                                          TX_GAS_FEE_HISTORY_PERCENTILE)
        /\ current > recommended =>
              /\ lastError = "HighGasFeeError"
              /\ signedCount = 0 /\ sentCount = 0
              /\ pc \in {"retryDelay", "executeDaemon"}

\* A transaction is sent at a base fee equal to the percentile.
C10_Witness ==
    /\ ~DRY_RUN
    /\ sentCount = 1
    /\ current = recommended
    /\ current > 0

C19_CycleErrorsNeverEndTheLoop == pc # "stopped"

\* C20: when the roots provider answers with prev.root equal to latest.root
\* (the last processed root is the finalized root), the cycle goes to sleep
\* with the prover not entered and the store untouched.
C20_SameRootsSleepWithoutProcessing ==
    [][(/\ pc = "baseRun"
        /\ storageData # Undefined
        /\ storageData.root = RootOf(finalizedSlot'))
       => (/\ pc' = "sleep"
           /\ UNCHANGED storeVars
           /\ UNCHANGED <<cycleVars, outcomeVars, loopVars>>)]_vars

\* The driver sleeps as caught up on the root it processed last.
C20_Witness ==
    /\ pc = "sleep" /\ sleepReason = "caught_up"
    /\ storageData # Undefined
    /\ storageData.root = RootOf(finalizedSlot)
    /\ handleBlockResult = "none"

(***************************************************************************)
(* Claims about handleBlock in detail, checked in ProverSpec.              *)
(***************************************************************************)
\* Range of a sequence.
Range(seq) == {seq[i] : i \in DOMAIN seq}

\* The deadline of a validator in seconds since genesis, written out.
SecondsToDeadline(validator) ==
    LET earliest == genesisTimestamp
                    + validator.activationEpoch * SLOTS_PER_EPOCH * SECONDS_PER_SLOT
                    + SHARD_COMMITTEE_PERIOD_IN_SECONDS
        eligible == IF deliveredTimestamp >= earliest THEN deliveredTimestamp
                    ELSE earliest
    IN  eligible + validator.exitDeadlineThreshold - genesisTimestamp

\* C11: in the second of two runs over the same range with the same answers
\* from the chain, no validator is submitted whose submission was confirmed
\* in the first run.
C11_ConfirmedNotSubmittedAgain ==
    \A first \in Range(firstRunSubmissions), second \in Range(submissions) :
        first.confirmed => Range(first.witnesses) \cap Range(second.witnesses) = {}

\* C13: every proof returned by the proof builder was verified locally
\* against the root it was built from.
C13_ReturnedProofsAreVerified ==
    \A p \in proofsReturned : p.verified

\* C14: every validator is grouped under the slot
\* floor((max(delivered, earliest) + threshold - genesis) / SECONDS_PER_SLOT),
\* that is the slot whose SECONDS_PER_SLOT seconds hold its deadline.
C14_DeadlineSlotOfEveryValidator ==
    \A group \in Range(groupQueue) : \A member \in Range(group.members) :
        /\ group.slot * SECONDS_PER_SLOT <= SecondsToDeadline(validators[member.validator])
        /\ SecondsToDeadline(validators[member.validator])
              < (group.slot + 1) * SECONDS_PER_SLOT

\* The request has been grouped: two deadline slots, the first one for a
\* validator whose deadline runs from the delivery of the request, the
\* second for one whose deadline runs from its activation.
C14_Witness ==
    /\ pc = "deadlineGroup" /\ run = 1 /\ deadlineSlot = 0
    /\ Len(groupQueue) = 2
    /\ validators[groupQueue[1].members[1].validator].activationEpoch = 0
    /\ validators[groupQueue[2].members[1].validator].activationEpoch = 1
    /\ SecondsToDeadline(validators[groupQueue[1].members[1].validator])
          % SECONDS_PER_SLOT # 0

\* C15: a validator is in a submission only if its exitEpoch in the state of
\* the proof slot is not below its exitDeadlineEpoch, the proof slot is not
\* before its eligible-exit time and the contract said the penalty applies;
\* the contract is never asked about a validator whose exitEpoch is below
\* its exitDeadlineEpoch.
C15_OnlyLateValidatorsSubmitted ==
    /\ \A s \in Range(submissions) : \A i \in Range(s.witnesses) :
          /\ validators[i].exitEpoch >= s.deadlineSlot \div SLOTS_PER_EPOCH
          /\ genesisTimestamp + s.proofSlot * SECONDS_PER_SLOT
                >= genesisTimestamp + SecondsToDeadline(validators[i])
                   - validators[i].exitDeadlineThreshold
          /\ validators[i].isPenaltyApplicable
    /\ \A i \in penaltyCalls :
          validators[i].exitEpoch
            >= (SecondsToDeadline(validators[i]) \div SECONDS_PER_SLOT)
               \div SLOTS_PER_EPOCH

\* One validator of a group was submitted, another one of the request had
\* exited before its deadline and the contract was not asked about it.
C15_Witness ==
    /\ run = 1 /\ pc = "handleBlockDone" /\ handleBlockResult = "returned"
    /\ submissions # <<>>
    /\ \E i \in DOMAIN validators :
          /\ validators[i].exitEpoch
                < (SecondsToDeadline(validators[i]) \div SECONDS_PER_SLOT)
                  \div SLOTS_PER_EPOCH
          /\ validators[i].isPenaltyApplicable
          /\ i \notin penaltyCalls

\* C16: a group goes through the historical entry point exactly when the
\* head is SLOTS_PER_HISTORICAL_ROOT slots or more past its deadline slot,
\* and through the current one otherwise; the historical proof is built for
\* the same decision.
C16_EntryPointBySlotAge ==
    /\ \A s \in Range(submissions) :
          (s.entry = "verifyHistoricalValidatorExitDelay")
            <=> (headSlot - s.deadlineSlot >= SLOTS_PER_HISTORICAL_ROOT)
    /\ \A s \in Range(submissions) :
          s.entry \in {"verifyHistoricalValidatorExitDelay",
                       "verifyValidatorExitDelay"}
    /\ pc = "generateHistoricalStateProof"
          => headSlot - deadlineSlot >= SLOTS_PER_HISTORICAL_ROOT

\* One run has used both entry points, the historical one for a deadline
\* slot exactly SLOTS_PER_HISTORICAL_ROOT behind the head.
C16_Witness ==
    /\ run = 1 /\ Len(submissions) = 2
    /\ submissions[1].entry = "verifyHistoricalValidatorExitDelay"
    /\ headSlot - submissions[1].deadlineSlot = SLOTS_PER_HISTORICAL_ROOT
    /\ submissions[2].entry = "verifyValidatorExitDelay"

\* C17: the proof of a group with deadline slot S is built at a slot at or
\* after S + 1 that has a block, and a deadline slot without a block does
\* not end the run.
C17_ProofSlotIsNextAvailableSlot ==
    /\ \A s \in Range(submissions) :
          s.proofSlot >= s.deadlineSlot + 1 /\ s.proofSlot \notin missedSlots
    /\ (handleBlockResult = "threw" /\ pc = "handleBlockDone")
          => deadlineSlot \notin missedSlots

\* C18: no submission carries more than VALIDATOR_BATCH_SIZE witnesses.
C18_SubmissionsAreBatches ==
    \A s \in Range(submissions) : Len(s.witnesses) <= VALIDATOR_BATCH_SIZE

\* C21: the head of the daemon loop is reached again only out of a sleep:
\* after a successful cycle the driver sleeps before the next cycle begins.
C21_NextCycleBeginsAfterSleep ==
    [][pc' = "run" => pc = "sleep"]_vars

(***************************************************************************)
(* Claims about the roots provider, checked in ProviderSpec.               *)
(***************************************************************************)
\* C22: whenever a last processed root is stored, getRoots answers with it
\* as prev, whatever START_ROOT, START_SLOT and START_EPOCH are; the first
\* getRoots after a start of the process answers with the root in the file.
C22_StoredRootTakesPrecedence ==
    [][(pc = "getRoots" /\ pc' = "process")
       => /\ storageData # Undefined => prev'.root = storageData.root
          /\ (prev = Undefined /\ storageFile # Undefined)
                => prev'.root = storageFile.root]_vars

\* The first cycle after a start resumed from the stored root although
\* START_ROOT, START_SLOT and START_EPOCH are all configured.
C22_Witness ==
    /\ pc = "process"
    /\ startFile # Undefined /\ startData = startFile
    /\ START_ROOT # NotConfigured /\ START_SLOT # NotConfigured
    /\ START_EPOCH # NotConfigured
    /\ START_SLOT \notin missedSlots
    /\ prev.root = startFile.root
    /\ prev.slot # START_SLOT

\* getRoots answered with nothing stored and nothing configured.
NoStoredNoConfigured ==
    /\ pc = "process"
    /\ startData = Undefined
    /\ START_ROOT = NotConfigured /\ START_SLOT = NotConfigured
    /\ START_EPOCH = NotConfigured

C24_DryRunReturnsBeforeSignerAndGasCap ==
    (DRY_RUN /\ emulated /\ execResult = "threw")
        => lastError \notin {"TypeError", "GasLimitExceededError"}


\* C25: the gas limit of a transaction is the higher of the buffered estimate
\* and TX_GAS_LIMIT: an estimate whose 120% exceeds TX_GAS_LIMIT is not
\* rejected, the attempt goes on with the buffered estimate as its gas limit.
C25_HigherOfEstimateAndLimitIsUsed ==
    estimatedWithBuffer(estimated) > TX_GAS_LIMIT =>
        /\ lastError # "GasLimitExceededError"
        /\ gasLimit = Max(estimatedWithBuffer(estimated), TX_GAS_LIMIT)


\* C26: after any sequence of refreshes the gas fee history cache holds at
\* most TX_GAS_FEE_HISTORY_DAYS * HOURS_PER_DAY * BLOCKS_PER_HOUR entries.
C26_CacheNeverExceedsMaxSize ==
    Len(gasFeeHistoryCache) <= TX_GAS_FEE_HISTORY_DAYS * HOURS_PER_DAY * BLOCKS_PER_HOUR

\* A full cache that a second refresh has extended by an hour of blocks.
C26_Witness ==
    /\ lastFeeHistoryBlockNumber = StartBlock + BLOCKS_PER_HOUR
    /\ Len(gasFeeHistoryCache) = TX_GAS_FEE_HISTORY_DAYS * HOURS_PER_DAY * BLOCKS_PER_HOUR
    /\ gasFeeHistoryCache[Len(gasFeeHistoryCache)] = FeeAt(lastFeeHistoryBlockNumber)

\* C27: a gas decision that reads a latest block fewer than BLOCKS_PER_HOUR
\* blocks after lastFeeHistoryBlockNumber leaves the cache and
\* lastFeeHistoryBlockNumber unchanged; one at BLOCKS_PER_HOUR or more sets
\* lastFeeHistoryBlockNumber to that block and ends the cache with the fetched
\* fees, the base fee of the latest block last.
C27_RefreshOnlyAfterAnHourOfBlocks ==
    [][(pc = "validateTransactionConditions" /\ ~DRY_RUN) =>
          IF latestBlockNumber' - lastFeeHistoryBlockNumber < BLOCKS_PER_HOUR
          THEN /\ gasFeeHistoryCache' = gasFeeHistoryCache
               /\ lastFeeHistoryBlockNumber' = lastFeeHistoryBlockNumber
          ELSE /\ lastFeeHistoryBlockNumber' = latestBlockNumber'
               /\ Len(gasFeeHistoryCache') >=
                     Min(latestBlockNumber' - lastFeeHistoryBlockNumber,
                         calculateMaxCacheSize)
               /\ gasFeeHistoryCache'[Len(gasFeeHistoryCache')] =
                     FeeAt(latestBlockNumber')]_vars

\* A decision made one block after a refresh: the cache is the one of that
\* refresh.
C27_Witness ==
    /\ lastFeeHistoryBlockNumber = StartBlock
    /\ latestBlockNumber = StartBlock + 1
    /\ Len(gasFeeHistoryCache) = calculateMaxCacheSize
    /\ current > 0


(***************************************************************************)
(* The packed data of an exit request and its decoding, checked in         *)
(* ProverSpec.  A record is ENTRY_SIZE words: the validator index, then    *)
(* the words of the public key.                                            *)
(***************************************************************************)
ENTRY_SIZE == 2

\* The index on the chain of the validator named by the k-th record of the
\* request, and the words of its public key.
ValidatorIndexOf(k) == 10 * k
PubkeyOf(k) == [j \in 1..(ENTRY_SIZE - 1) |-> 100 + ValidatorIndexOf(k)]

\* exitRequest.exitRequestsData.data: the records of the validators of the
\* request, one after the other.
exitRequestsData ==
    [p \in 1..(Len(validators) * ENTRY_SIZE) |->
        LET k == ((p - 1) \div ENTRY_SIZE) + 1
            j == ((p - 1) % ENTRY_SIZE) + 1
        IN  IF j = 1 THEN ValidatorIndexOf(k) ELSE PubkeyOf(k)[j - 1]]

\* The loop of decodeValidatorsData from a byte offset on.
RECURSIVE decodeFrom(_, _, _, _)
decodeFrom(data, offset, exitDataIndex, entries) ==
    IF ~(offset < Len(data)) THEN entries
    ELSE LET entry == SubSeq(data, offset + 1, Min(offset + ENTRY_SIZE, Len(data)))
         IN  decodeFrom(data, offset + ENTRY_SIZE, exitDataIndex + 1,
                        Append(entries,
                               [exitDataIndex |-> exitDataIndex,
                                validatorIndex |-> entry[1],
                                validatorPubkey |-> SubSeq(entry, 2, Len(entry))]))

\* A decoding that counts the records from one.
decodeValidatorsData_CountsFromOne(encoded) == decodeFrom(encoded, 0, 1, <<>>)

\* decodeValidatorsData: the entries of the packed data, exitDataIndex from 0.
decodeValidatorsData(encoded) == decodeFrom(encoded, 0, 0, <<>>)

\* The index and public key of the ValidatorWitness that processValidator
\* builds for the i-th decoded validator of the request.
ValidatorWitness(i) ==
    LET validator == decodeValidatorsData(exitRequestsData)[i]
    IN  [exitRequestIndex |-> validator.exitDataIndex,
         pubkey |-> validator.validatorPubkey]

MaxGindex == 7
MaxProofLen == 3
HashMod == 5
Chunks == {1, 2}

\* createHash('sha256').update(left).update(right).digest()
Hash(left, right) == (2 * left + 3 * right + 1) % HashMod

\* One item of the branch: buf on the left for an even gI, else on the right.
hashItem(g, b, p) == IF g % 2 = 0 THEN Hash(b, p) ELSE Hash(p, b)

\* An end of the check that does not look at what is left of gI.
verifyProofEnd_AnyLength(g, root, b) ==
    IF root # b THEN "Proof is not valid" ELSE "accepted"

\* The checks after the forEach.
verifyProofEnd(g, root, b) ==
    IF g # 1 THEN "Branch is missing items"
    ELSE IF root # b THEN "Proof is not valid"
    ELSE "accepted"

\* The callback of proof.forEach for the next item of the branch.
ProofForEach ==
    /\ pc = "verifyProof"
    /\ verifyResult = "running"
    /\ consumed < Len(proof)
    /\ buf' = hashItem(gI, buf, proof[consumed + 1])
    /\ gI' = gI \div 2
    /\ consumed' = consumed + 1
    /\ verifyResult' = IF gI' = 0 THEN "Branch has extra item" ELSE "running"
    /\ UNCHANGED <<proofRoot, gindex, proof, value>>
    /\ UNCHANGED <<sleepReason, cfgVars, mempoolVars, chainVars, pc, storeVars, cycleVars,
                   outcomeVars, loopVars, txVars, callVars,
                   highGasFeeInterruptionsCount, gasVars, dataVars>>

\* The forEach is over: verifyProof throws or returns.
VerifyProofReturns ==
    /\ pc = "verifyProof"
    /\ verifyResult = "running"
    /\ consumed = Len(proof)
    /\ verifyResult' = verifyProofEnd(gI, proofRoot, buf)
    /\ UNCHANGED <<proofRoot, gindex, proof, value, gI, buf, consumed>>
    /\ UNCHANGED <<sleepReason, cfgVars, mempoolVars, chainVars, pc, storeVars, cycleVars,
                   outcomeVars, loopVars, txVars, callVars,
                   highGasFeeInterruptionsCount, gasVars, dataVars>>

\* verifyProof is called with a root, a generalized index, a branch and a
\* leaf.
VerifyInit ==
    /\ DRY_RUN = FALSE /\ signer = TRUE
    /\ stakingModuleContracts = ModuleIds
    /\ START_ROOT = NotConfigured
    /\ START_SLOT = NotConfigured /\ START_EPOCH = NotConfigured
    /\ finalizedSlot = 1
    /\ latestBlockNumber = StartBlock
    /\ sleepReason = None
    /\ prev = Undefined /\ latest = Undefined
    /\ storageData = Undefined /\ storageFile = Undefined
    /\ startData = Undefined /\ startFile = Undefined
    /\ cycleResult = "none" /\ failedAt = None
    /\ requestsLeft = 0 /\ groupsLeft = 0 /\ handleBlockResult = "none"
    /\ errorCount = 0
    /\ attempts = 0
    /\ emulated = FALSE /\ estimated = 0 /\ gasLimit = 0
    /\ current = 0 /\ recommended = 0
    /\ lastError = None /\ execResult = "none"
    /\ highGasFeeInterruptionsCount = 0
    /\ signedCount = 0 /\ sentCount = 0
    /\ pendingTransactions = 0
    /\ gasFeeHistoryCache = <<>>
    /\ lastFeeHistoryBlockNumber = 0
    /\ pc = "verifyProof"
    /\ validators = <<>> /\ deliveredTimestamp = 0
    /\ headSlot = 0 /\ missedSlots = {}
    /\ run = 0
    /\ groupQueue = <<>> /\ deadlineSlot = 0 /\ isOldSlot = FALSE
    /\ memberQueue = <<>> /\ validatorWitnesses = <<>> /\ penaltyCalls = {}
    /\ proofsReturned = {} /\ submissions = <<>>
    /\ firstRunSubmissions = <<>>
    /\ proofRoot \in 0..(HashMod - 1)
    /\ gindex \in 0..MaxGindex
    /\ \E n \in 0..MaxProofLen : proof \in [1..n -> Chunks]
    /\ value \in Chunks
    /\ gI = gindex /\ buf = value /\ consumed = 0
    /\ verifyResult = "running"

VerifyNext ==
    \/ ProofForEach
    \/ VerifyProofReturns

VerifySpec == VerifyInit /\ [][VerifyNext]_vars

\* floor(log2(g)) for g >= 1: the depth of the node with generalized index g.
RECURSIVE Log2Floor(_)
Log2Floor(g) == IF g <= 1 THEN 0 ELSE 1 + Log2Floor(g \div 2)

RECURSIVE Pow2(_)
Pow2(n) == IF n = 0 THEN 1 ELSE 2 * Pow2(n - 1)

\* The root over the leaf at generalized index g with the branch ws: at
\* level k the node in hand has index floor(g / 2^(k-1)) and is a left child
\* when that index is even.
RECURSIVE RootFrom(_, _, _, _)
RootFrom(node, g, ws, k) ==
    IF k > Len(ws) THEN node
    ELSE RootFrom(IF (g \div Pow2(k - 1)) % 2 = 0
                  THEN Hash(node, ws[k]) ELSE Hash(ws[k], node),
                  g, ws, k + 1)

\* C29: verifyProof accepts only a branch of exactly floor(log2(gindex))
\* items, all of them consumed and gI shifted down to 1, whose recomputed
\* hash is the given root; a longer branch is rejected as having an extra
\* item and a shorter one as missing items.
C29_AcceptsOnlyExactBranchAndRoot ==
    /\ verifyResult = "accepted" =>
          /\ gindex >= 1
          /\ Len(proof) = Log2Floor(gindex)
          /\ consumed = Len(proof)
          /\ gI = 1
          /\ proofRoot = RootFrom(value, gindex, proof, 1)
    /\ (verifyResult \notin {"running", None} /\ gindex >= 1) =>
          /\ Len(proof) > Log2Floor(gindex) => verifyResult = "Branch has extra item"
          /\ Len(proof) < Log2Floor(gindex) => verifyResult = "Branch is missing items"

\* A branch of two items is accepted for a leaf that is a right child.
C29_Witness ==
    /\ verifyResult = "accepted"
    /\ Len(proof) = 2
    /\ gindex % 2 = 1


\* C30: when deserializing the finalized beacon state fails, the cycle ends
\* without an exception (handleBlock returns, the driver does not recover
\* from an error) and lastProcessedRoot is as it was when the cycle began.
C30_FinalizedStateFailureEndsCycleGracefully ==
    failedAt = "deserializeToView" =>
        /\ handleBlockResult # "threw"
        /\ cycleResult # "failed"
        /\ pc # "error_recovery"
        /\ storageData = startData /\ storageFile = startFile


\* C31: a request that names a validator of a staking module without a
\* contract in the dispatch table fails handleBlock at the grouping: no group
\* of the request is formed or submitted, in either call over the range, and
\* nothing is persisted.
C31_UnknownModuleFailsTheRequest ==
    (\E i \in DOMAIN validators : ModuleIdOf(i) \notin stakingModuleContracts) =>
        /\ groupQueue = <<>> /\ memberQueue = <<>>
        /\ submissions = <<>> /\ firstRunSubmissions = <<>>
        /\ pc \in {"groupValidatorsByDeadlineSlot", "handleBlockDone"}
        /\ pc = "handleBlockDone" => handleBlockResult = "threw"
        /\ storageData = Undefined /\ storageFile = Undefined

\* The second call over the range has failed on the unknown module as well.
C31_Witness ==
    /\ \E i \in DOMAIN validators : ModuleIdOf(i) \notin stakingModuleContracts
    /\ run = 2
    /\ pc = "handleBlockDone" /\ handleBlockResult = "threw"


(***************************************************************************)
(* The execution-layer block range of a cycle, checked in ProviderSpec.    *)
(***************************************************************************)
\* provider.getBlock(executionPayload.blockHash).number for the beacon block
\* at a slot: a slot without a block adds no execution block.
blockNumberOf(slot) == Cardinality({s \in 0..slot : s \notin missedSlots})

\* The blocks veboContract.queryFilter(filter, fromBlock, toBlock) scans for
\* handleBlock(prevBlockNumber, finalizedBlockNumber): both ends included.
scannedBlocks(prevHeader, finalizedHeader) ==
    blockNumberOf(prevHeader.slot)..blockNumberOf(finalizedHeader.slot)

\* C32: the range of a cycle that completes begins right after the block of
\* the root the last completed cycle stored: no block of the earlier range
\* is scanned again and none is left out.
C32_RangesNeitherOverlapNorLeaveGaps ==
    [][(/\ pc = "process" /\ prev' = prev
        /\ storageData # Undefined
        /\ storageData' # storageData)
       => /\ scannedBlocks(prev, latest) \cap (0..blockNumberOf(storageData.slot)) = {}
          /\ blockNumberOf(storageData.slot) + 1 \in scannedBlocks(prev, latest)]_vars


\* C33: an ExitDataProcessing event whose transaction or receipt could not be
\* fetched is never left out of a cycle that completes and persists
\* lastProcessedRoot: with such an event the cycle does not end well and the
\* store is as it was when the cycle began.
C33_FetchFailureNeverDropsAnEvent ==
    errorCount > 0 =>
        /\ cycleResult # "ok"
        /\ storageData = startData /\ storageFile = startFile


(***************************************************************************)
(* One call of Execution.execute on its own, with a signer and outside dry *)
(* run: the while (true) loop of executeDaemon until it returns or throws. *)
(* The task is always scheduled again: every await of the loop settles.    *)
(***************************************************************************)
ExecuteInit ==
    /\ DRY_RUN = FALSE /\ signer = TRUE
    /\ stakingModuleContracts = ModuleIds
    /\ START_ROOT = NotConfigured
    /\ START_SLOT = NotConfigured /\ START_EPOCH = NotConfigured
    /\ finalizedSlot = 1
    /\ latestBlockNumber = StartBlock
    /\ sleepReason = None
    /\ prev = Undefined /\ latest = Undefined
    /\ storageData = Undefined /\ storageFile = Undefined
    /\ startData = Undefined /\ startFile = Undefined
    /\ cycleResult = "none" /\ failedAt = None
    /\ requestsLeft = 0 /\ groupsLeft = 0 /\ handleBlockResult = "none"
    /\ errorCount = 0
    /\ attempts = 0
    /\ emulated = FALSE /\ estimated = 0 /\ gasLimit = 0
    /\ current = 0 /\ recommended = 0
    /\ lastError = None /\ execResult = "running"
    /\ highGasFeeInterruptionsCount = 0
    /\ signedCount = 0 /\ sentCount = 0
    /\ gasFeeHistoryCache = <<>>
    /\ lastFeeHistoryBlockNumber = 0
    /\ pc = "executeDaemon"
    /\ NoRequest
    /\ NoProof
    /\ pendingTransactions = 0

ExecuteNext ==
    \/ ExecuteAttempt
    \/ RetryDelay
    \/ EmulateTransaction
    \/ ValidateSigner
    \/ PrepareTransaction
    \/ ValidateTransactionConditions
    \/ SendAndConfirmTransaction
    \/ WaitForConfirmation

ExecuteSpec == ExecuteInit /\ [][ExecuteNext]_vars /\ WF_vars(ExecuteNext)

\* C34: a submission held back by a high gas fee is tried again after the
\* retry delay, and the attempt that finds the current fee at or below the
\* recommended one goes on to sign and send: a held-back submission leads to
\* a sent transaction, unless the fee is found high once more or the attempt
\* fails for another reason.
C34_HeldBackSubmissionIsSentOnceGasIsAcceptable ==
    /\ [][(pc = "validateTransactionConditions" /\ current' <= recommended')
             => pc' = "sendAndConfirmTransaction"]_vars
    /\ [][pc = "sendAndConfirmTransaction" => signedCount' = signedCount + 1]_vars
    /\ \A k \in 1..MaxInterruptions :
          (pc = "retryDelay" /\ highGasFeeInterruptionsCount = k)
             ~> \/ sentCount > 0
                \/ highGasFeeInterruptionsCount > k
                \/ execResult = "threw"

\* A transaction sent by the attempt that followed a high gas fee.
C34_Witness ==
    /\ highGasFeeInterruptionsCount > 0
    /\ lastError = "HighGasFeeError"
    /\ attempts > 1
    /\ sentCount > 0


\* C35: when provider.estimateGas fails, estimateGasLimit answers TX_GAS_LIMIT
\* and the attempt goes on with TX_GAS_LIMIT as the gas limit of the
\* transaction: the submission does not fail on the gas cap.
C35_FailedEstimateFallsBackToGasLimit ==
    estimated = TX_GAS_LIMIT =>
        /\ lastError # "GasLimitExceededError"
        /\ signer => gasLimit = TX_GAS_LIMIT


(***************************************************************************)
(* handleBlock for a request of one validator while the chain goes on: the *)
(* head read by isSlotOld is not the head at the later awaits.             *)
(***************************************************************************)
MaxHeadSlot == 8

\* A slot passes during one of the awaits of handleBlock.
HeadAdvances ==
    /\ pc \notin {"groupValidatorsByDeadlineSlot", "handleBlockDone"}
    /\ headSlot < MaxHeadSlot
    /\ headSlot' = headSlot + 1
    /\ UNCHANGED <<daemonVars, pc, handleBlockResult, validators,
                   deliveredTimestamp, missedSlots, groupVars, reportVars>>

\* The finalized slots a chain with the given head can have: finality is
\* FinalityLags slots behind the head.
FinalityLags == {1, 3}
FinalizedSlots(head) == {head - lag : lag \in FinalityLags}

\* handleBlock has fetched the finalized state and decoded one validator.
ModeInit ==
    /\ DRY_RUN = FALSE /\ signer = TRUE
    /\ stakingModuleContracts = ModuleIds
    /\ START_ROOT = NotConfigured
    /\ START_SLOT = NotConfigured /\ START_EPOCH = NotConfigured
    /\ latestBlockNumber = StartBlock
    /\ sleepReason = None
    /\ prev = Undefined /\ latest = Undefined
    /\ storageData = Undefined /\ storageFile = Undefined
    /\ startData = Undefined /\ startFile = Undefined
    /\ cycleResult = "none" /\ failedAt = None
    /\ requestsLeft = 0 /\ groupsLeft = 0 /\ handleBlockResult = "none"
    /\ errorCount = 0
    /\ attempts = 0
    /\ emulated = FALSE /\ estimated = 0 /\ gasLimit = 0
    /\ current = 0 /\ recommended = 0
    /\ lastError = None /\ execResult = "none"
    /\ highGasFeeInterruptionsCount = 0
    /\ signedCount = 0 /\ sentCount = 0
    /\ gasFeeHistoryCache = <<>>
    /\ lastFeeHistoryBlockNumber = 0
    /\ pc = "groupValidatorsByDeadlineSlot"
    /\ validators \in [1..1 -> ValidatorData]
    /\ deliveredTimestamp \in DeliveredTimestamps
    /\ headSlot \in HeadSlots
    /\ finalizedSlot \in FinalizedSlots(headSlot)
    /\ missedSlots \in MissedSlots
    /\ run = 1
    /\ groupQueue = <<>> /\ deadlineSlot = 0 /\ isOldSlot = FALSE
    /\ memberQueue = <<>> /\ validatorWitnesses = <<>> /\ penaltyCalls = {}
    /\ proofsReturned = {} /\ submissions = <<>>
    /\ firstRunSubmissions = <<>>
    /\ NoProof
    /\ pendingTransactions = 0

ModeNext ==
    \/ ProverNext
    \/ HeadAdvances

ModeSpec == ModeInit /\ [][ModeNext]_vars

\* C36: when a submission in current mode is sent, its deadline slot is
\* fewer than SLOTS_PER_HISTORICAL_ROOT slots behind the head of that moment.
C36_CurrentModeStillValidWhenSent ==
    \A s \in Range(submissions) :
        s.entry = "verifyValidatorExitDelay" =>
            s.headSlot - s.deadlineSlot < SLOTS_PER_HISTORICAL_ROOT


\* C37: whenever the historical proof is built for a deadline slot, the
\* finalized state already has the summary at summaryIndex: the slot of that
\* summary is at or below the finalized slot.
C37_FinalizedStateHasTheSummary ==
    pc = "generateHistoricalStateProof" =>
        calcSlotOfSummary(calcSummaryIndex(deadlineSlot)) <= finalizedSlot


\* C38: at most one transaction sent by the bot is unconfirmed at any time;
\* nothing is sent while an earlier transaction is still pending, a retry
\* by the next cycle after a confirmation timeout included.
C38_AtMostOneUnconfirmedTransaction ==
    pendingTransactions <= 1


\* C39: a refresh of the gas history yields exactly one base fee for each of
\* N distinct consecutive blocks ending at the latest block, oldest first:
\* whatever the batches, the cache is the fees of the last blocks up to the
\* block of the refresh.
C39_FeesOfConsecutiveBlocks ==
    gasFeeHistoryCache # <<>> =>
        gasFeeHistoryCache =
            BatchFees(Len(gasFeeHistoryCache), lastFeeHistoryBlockNumber)

=============================================================================
